---- MODULE Spec2Model ----
(***************************************************************************)
(* Model of the geometry and move core of socha-client-rust-2024:          *)
(*   src/game/cube_dir.rs   CubeDir (ordinal, turn_count_to, Display,      *)
(*                          FromStr)                                       *)
(*   src/game/cube_vec.rs   CubeVec (constructors, operators, rotated_by,  *)
(*                          conversions)                                   *)
(*   src/game/move.rs       Move (building, performing, XML codec)         *)
(*   src/game/board.rs      Board (XML decoding)                           *)
(*                                                                         *)
(* The library is a set of value types and functions.  A state of the      *)
(* model is the last call made into the library (call: the function op,    *)
(* its arguments args and its outcome ret), and, for the Move part, the Move under construction (the_move)  *)
(* and the generic receiver of actions that moves are performed on         *)
(* (receiver).                                                             *)
(* i32 arithmetic keeps its width: an overflowing operation panics when    *)
(* the crate is built with overflow checks (debug profile) and wraps       *)
(* otherwise (release profile); overflow_checks is the build's choice.     *)
(***************************************************************************)
EXTENDS Integers, Sequences, FiniteSets

VARIABLES overflow_checks, call, the_move, receiver

vars == <<overflow_checks, call, the_move, receiver>>

\* the last call into the library: the function, its arguments, its outcome
op == call[1]
args == call[2]
ret == call[3]

-----------------------------------------------------------------------------
(* Bounds of the model.                                                    *)

MaxCoord == 2
MaxInt == 7
MaxActions == 3
MaxChilds == 2

-----------------------------------------------------------------------------
(* i32 arithmetic.                                                         *)

MaxI32 == 2147483647
MinI32 == -MaxI32 - 1

Done(v) == [panic |-> FALSE, val |-> v]
IPanic == [panic |-> TRUE, val |-> 0]

\* a + b leaves the i32 range
AddOverflows(a, b) ==
    \/ b > 0 /\ a > MaxI32 - b
    \/ b < 0 /\ a < MinI32 - b

\* the two's complement result of an overflowing a + b
WrapAdd(a, b) ==
    IF b > 0 THEN (a + MinI32) + (b + MinI32)
             ELSE (a - MinI32) + (b - MinI32)

add_i32(a, b) ==
    IF ~AddOverflows(a, b) THEN Done(a + b)
    ELSE IF overflow_checks THEN IPanic
    ELSE Done(WrapAdd(a, b))

SubOverflows(a, b) ==
    \/ b < 0 /\ a > MaxI32 + b
    \/ b > 0 /\ a < MinI32 + b

WrapSub(a, b) ==
    IF b < 0 THEN (a + MinI32) + (MinI32 - b)
             ELSE (a - MinI32) + ((MaxI32 - b) + 1)

sub_i32(a, b) ==
    IF ~SubOverflows(a, b) THEN Done(a - b)
    ELSE IF overflow_checks THEN IPanic
    ELSE Done(WrapSub(a, b))

neg_i32(a) ==
    IF a # MinI32 THEN Done(-a)
    ELSE IF overflow_checks THEN IPanic
    ELSE Done(MinI32)

\* a + b and -a modulo 2^32, whatever the build
WAdd(a, b) == IF AddOverflows(a, b) THEN WrapAdd(a, b) ELSE a + b
WNeg(a) == IF a = MinI32 THEN MinI32 ELSE -a

\* byte i (0..3) of the two's complement form of a
Byte(a, i) == (a \div (CASE i = 0 -> 1 [] i = 1 -> 256 [] i = 2 -> 65536
                         [] i = 3 -> 16777216)) % 256

\* (x * 2^(32 - w)) modulo 2^32 as an i32, for 0 <= x and w in {8, 16, 24}
ShiftIn(x, w) ==
    LET pw == CASE w = 8 -> 256 [] w = 16 -> 65536 [] w = 24 -> 16777216
        up == CASE w = 8 -> 16777216 [] w = 16 -> 65536 [] w = 24 -> 256
        y == x % pw
    IN  IF 2 * y < pw THEN y * up ELSE (y - pw) * up

\* a * b modulo 2^32: the schoolbook product of the bytes of a and b
WMul(a, b) ==
    LET c0 == Byte(a, 0) * Byte(b, 0)
        c1 == Byte(a, 0) * Byte(b, 1) + Byte(a, 1) * Byte(b, 0)
        c2 == Byte(a, 0) * Byte(b, 2) + Byte(a, 1) * Byte(b, 1)
                + Byte(a, 2) * Byte(b, 0)
        c3 == Byte(a, 0) * Byte(b, 3) + Byte(a, 1) * Byte(b, 2)
                + Byte(a, 2) * Byte(b, 1) + Byte(a, 3) * Byte(b, 0)
    IN  WAdd(WAdd(c0, ShiftIn(c1, 24)), WAdd(ShiftIn(c2, 16), ShiftIn(c3, 8)))

\* truncating division, b # 0 and not MinI32 / -1
DivTrunc(a, b) ==
    IF b = MinI32 THEN (IF a = MinI32 THEN 1 ELSE 0)
    ELSE LET m == IF b > 0 THEN b ELSE -b
             f == a \div m
             t == IF a < 0 /\ a % m # 0 THEN f + 1 ELSE f
         IN  IF b > 0 THEN t ELSE -t

MulOverflows(a, b) ==
    /\ a # 0
    /\ b # 0
    /\ \/ a = -1 /\ b = MinI32
       \/ b = -1 /\ a = MinI32
       \/ /\ ~(a = -1 /\ WMul(a, b) = MinI32)
          /\ DivTrunc(WMul(a, b), a) # b

mul_i32(a, b) ==
    IF ~MulOverflows(a, b) THEN Done(WMul(a, b))
    ELSE IF overflow_checks THEN IPanic
    ELSE Done(WMul(a, b))

\* division by zero and MinI32 / -1 panic in every build
div_i32(a, b) ==
    IF b = 0 \/ (a = MinI32 /\ b = -1) THEN IPanic
    ELSE Done(DivTrunc(a, b))

\* i32::rem_euclid with a positive modulus
rem_euclid(a, m) == a % m

\* the % operator of i32 (remainder with the sign of the dividend), m > 0
rem_i32(a, m) ==
    LET e == a % m
    IN  IF a < 0 /\ e # 0 THEN e - m ELSE e

min_i32(a, b) == IF a <= b THEN a ELSE b

-----------------------------------------------------------------------------
(* cube_dir.rs                                                             *)

\* CubeDir::ALL, in declaration order (the discriminants are 0..5)
ALL == <<"Right", "DownRight", "DownLeft", "Left", "UpLeft", "UpRight">>

COUNT == 6

CubeDir == {ALL[i] : i \in 1..COUNT}

\* CubeDir::turns: the discriminant of the variant
turns(dir) == (CHOOSE i \in 1..COUNT : ALL[i] = dir) - 1

\* turn_count_to with the half-open range taken at the wrong end, (-3, 3]
turn_count_to_upper_tie(self, target) ==
    rem_i32(COUNT + turns(target) - turns(self) + 2, COUNT) - 2

\* CubeDir::turn_count_to; all the intermediate values are within 4..14
turn_count_to(self, target) ==
    rem_i32(COUNT + turns(target) - turns(self) + 3, COUNT) - 3

\* impl fmt::Display for CubeDir
DirToString(dir) ==
    CASE dir = "Right" -> "RIGHT"
      [] dir = "DownRight" -> "DOWN_RIGHT"
      [] dir = "DownLeft" -> "DOWN_LEFT"
      [] dir = "Left" -> "LEFT"
      [] dir = "UpLeft" -> "UP_LEFT"
      [] dir = "UpRight" -> "UP_RIGHT"

Ok(v) == [ok |-> TRUE, val |-> v]
Err(kind, msg) == [ok |-> FALSE, kind |-> kind, msg |-> msg]

\* from_str whose error does not say which token was rejected
from_str_without_token(s) ==
    CASE s = "RIGHT" -> Ok("Right")
      [] s = "DOWN_RIGHT" -> Ok("DownRight")
      [] s = "DOWN_LEFT" -> Ok("DownLeft")
      [] s = "LEFT" -> Ok("Left")
      [] s = "UP_LEFT" -> Ok("UpLeft")
      [] s = "UP_RIGHT" -> Ok("UpRight")
      [] OTHER -> Err("UnknownVariant", "Unknown direction")

\* impl FromStr for CubeDir
from_str(s) ==
    CASE s = "RIGHT" -> Ok("Right")
      [] s = "DOWN_RIGHT" -> Ok("DownRight")
      [] s = "DOWN_LEFT" -> Ok("DownLeft")
      [] s = "LEFT" -> Ok("Left")
      [] s = "UP_LEFT" -> Ok("UpLeft")
      [] s = "UP_RIGHT" -> Ok("UpRight")
      [] OTHER -> Err("UnknownVariant", "Unknown direction " \o s)

-----------------------------------------------------------------------------
(* cube_vec.rs                                                             *)

\* CubeVec::new
new(r, q, s) == [r |-> r, q |-> q, s |-> s]

ZERO == new(0, 0, 0)

VPanic == [panic |-> TRUE, val |-> ZERO]

\* CubeVec::new applied to three computed components: the call is reached
\* only when none of the computations panicked
new_checked(cr, cq, cs) ==
    IF cr.panic \/ cq.panic \/ cs.panic THEN VPanic
    ELSE Done(new(cr.val, cq.val, cs.val))

\* CubeVec::rq: the first parameter is r, the second q, and s = -q - r
rq(r, q) ==
    LET nq == neg_i32(q)
    IN  IF nq.panic THEN VPanic
        ELSE new_checked(Done(r), Done(q), sub_i32(nq.val, r))

\* impl From<CubeDir> for CubeVec (no component overflows)
FromCubeDir(dir) ==
    CASE dir = "Right" -> rq(1, 0).val
      [] dir = "DownRight" -> rq(0, 1).val
      [] dir = "DownLeft" -> rq(-1, 1).val
      [] dir = "Left" -> rq(-1, 0).val
      [] dir = "UpLeft" -> rq(0, -1).val
      [] dir = "UpRight" -> rq(1, -1).val

\* impl From<CubeVec> for [i32; 3], indexed from 1 here
Components(vec) == <<vec.r, vec.q, vec.s>>

\* impl Neg for CubeVec
neg(self) == new_checked(neg_i32(self.r), neg_i32(self.q), neg_i32(self.s))

\* CubeVec::rotated_by
rotated_by(self, n) ==
    LET components == Components(self)
        t1 == add_i32(n, 1)
        t2 == add_i32(n, 2)
    IN  IF t1.panic \/ t2.panic THEN VPanic
        ELSE LET vec == new(components[rem_euclid(n, 3) + 1],
                            components[rem_euclid(t1.val, 3) + 1],
                            components[rem_euclid(t2.val, 3) + 1])
             IN  IF rem_i32(n, 2) = 0 THEN Done(vec) ELSE neg(vec)

\* add with the third component taken from the wrong field of rhs
add_wrong_component(self, rhs) ==
    new_checked(add_i32(self.r, rhs.r), add_i32(self.q, rhs.q),
                add_i32(self.s, rhs.r))

\* impl Add for CubeVec, impl AddAssign<CubeVec> for CubeVec
add(self, rhs) ==
    new_checked(add_i32(self.r, rhs.r), add_i32(self.q, rhs.q),
                add_i32(self.s, rhs.s))

\* impl Add<CubeDir> for CubeVec, impl AddAssign<CubeDir> for CubeVec
add_dir(self, rhs) == add(self, FromCubeDir(rhs))

\* impl Sub for CubeVec, impl SubAssign<CubeVec> for CubeVec
sub(self, rhs) ==
    new_checked(sub_i32(self.r, rhs.r), sub_i32(self.q, rhs.q),
                sub_i32(self.s, rhs.s))

\* impl Sub<CubeDir> for CubeVec, impl SubAssign<CubeDir> for CubeVec
sub_dir(self, rhs) == sub(self, FromCubeDir(rhs))

\* impl Mul<i32> for CubeVec, impl MulAssign<i32> for CubeVec
mul(self, rhs) ==
    new_checked(mul_i32(self.r, rhs), mul_i32(self.q, rhs),
                mul_i32(self.s, rhs))

\* impl Mul<CubeVec> for i32
mul_left(self, rhs) ==
    new_checked(mul_i32(self, rhs.r), mul_i32(self, rhs.q),
                mul_i32(self, rhs.s))

\* impl Div<i32> for CubeVec, impl DivAssign<i32> for CubeVec
div(self, rhs) ==
    new_checked(div_i32(self.r, rhs), div_i32(self.q, rhs),
                div_i32(self.s, rhs))

\* impl From<Vec2<T>> for CubeVec: the local r = y - 2 is handed to rq as
\* its second argument and x - 1 - min(r, 0) as its first
FromVec2(x, y) ==
    LET r == sub_i32(y, 2)
        x1 == sub_i32(x, 1)
    IN  IF r.panic \/ x1.panic THEN VPanic
        ELSE LET first == sub_i32(x1.val, min_i32(r.val, 0))
             IN  IF first.panic THEN VPanic ELSE rq(first.val, r.val)

-----------------------------------------------------------------------------
(* util: the XML element tree (Element and its builder), the decimal form  *)
(* of i32 attributes, and the codecs of Action and Segment.                *)

\* Element::new(name) of the builder: no attributes, no children
ElementNew(name) == [name |-> name, attributes |-> {}, childs |-> <<>>]

\* builder.attribute(key, value)
BuilderAttribute(b, key, value) ==
    [b EXCEPT !.attributes = {p \in @ : p[1] # key} \cup {<<key, value>>}]

\* builder.child(element)
BuilderChild(b, child) == [b EXCEPT !.childs = Append(@, child)]

\* builder.childs(elements)
BuilderChilds(b, elements) == [b EXCEPT !.childs = @ \o elements]

\* builder.build()
BuilderBuild(b) == b

\* element.childs(): all the children, in document order
childs(elem) == elem.childs

\* element.childs_by_name(name): the children of that name, in document order
childs_by_name(elem, name) ==
    SelectSeq(elem.childs, LAMBDA c : c.name = name)

\* element.child_by_name(name): the first child of that name, required
child_by_name(elem, name) ==
    IF childs_by_name(elem, name) = <<>>
    THEN Err("MissingChild", name)
    ELSE Ok(Head(childs_by_name(elem, name)))

\* element.attribute(key): the value of a required attribute
attribute(elem, key) ==
    IF \E p \in elem.attributes : p[1] = key
    THEN Ok((CHOOSE p \in elem.attributes : p[1] = key)[2])
    ELSE Err("MissingAttribute", key)

Digits == <<"0", "1", "2", "3", "4", "5", "6", "7", "8", "9">>

RECURSIVE NatToString(_)
NatToString(n) ==
    IF n < 10 THEN Digits[n + 1]
    ELSE NatToString(n \div 10) \o Digits[(n % 10) + 1]

\* Display of i32
I32ToString(n) ==
    IF n = MinI32 THEN "-2147483648"
    ELSE IF n < 0 THEN "-" \o NatToString(-n)
    ELSE NatToString(n)

\* the attribute values of the model that str::parse::<i32> accepts
MaxAttr == 3
AttrInts == (-MaxAttr)..MaxAttr

\* str::parse::<i32>, on the attribute values of the model: the decimal
\* form, or the decimal form of a non-negative value after a plus sign
ParseI32(s) ==
    IF \E n \in AttrInts : s = I32ToString(n)
    THEN Ok(CHOOSE n \in AttrInts : s = I32ToString(n))
    ELSE IF \E n \in 0..MaxAttr : s = "+" \o I32ToString(n)
    THEN Ok(CHOOSE n \in 0..MaxAttr : s = "+" \o I32ToString(n))
    ELSE Err("MalformedValue", s)

\* Action::accelerate, Action::turn, Action::advance
accelerate(acc) == [type |-> "Accelerate", acc |-> acc]
turn(direction) == [type |-> "Turn", direction |-> direction]
advance(distance) == [type |-> "Advance", distance |-> distance]

\* impl From<Action> for Element
ActionToElement(action) ==
    CASE action.type = "Accelerate" ->
           BuilderBuild(BuilderAttribute(ElementNew("acceleration"),
                                         "acc", I32ToString(action.acc)))
      [] action.type = "Turn" ->
           BuilderBuild(BuilderAttribute(ElementNew("turn"),
                                         "direction",
                                         DirToString(action.direction)))
      [] action.type = "Advance" ->
           BuilderBuild(BuilderAttribute(ElementNew("advance"),
                                         "distance",
                                         I32ToString(action.distance)))

\* attribute(key)?.parse()? for an i32
ParsedI32Attribute(elem, key) ==
    IF attribute(elem, key).ok
    THEN ParseI32(attribute(elem, key).val)
    ELSE attribute(elem, key)

\* attribute(key)?.parse()? for a CubeDir
ParsedDirAttribute(elem, key) ==
    IF attribute(elem, key).ok
    THEN from_str(attribute(elem, key).val)
    ELSE attribute(elem, key)

\* impl TryFrom<&Element> for Action
ActionTryFrom(elem) ==
    CASE elem.name = "acceleration" ->
           IF ParsedI32Attribute(elem, "acc").ok
           THEN Ok(accelerate(ParsedI32Attribute(elem, "acc").val))
           ELSE ParsedI32Attribute(elem, "acc")
      [] elem.name = "turn" ->
           IF ParsedDirAttribute(elem, "direction").ok
           THEN Ok(turn(ParsedDirAttribute(elem, "direction").val))
           ELSE ParsedDirAttribute(elem, "direction")
      [] elem.name = "advance" ->
           IF ParsedI32Attribute(elem, "distance").ok
           THEN Ok(advance(ParsedI32Attribute(elem, "distance").val))
           ELSE ParsedI32Attribute(elem, "distance")
      [] OTHER -> Err("UnknownVariant", elem.name)

\* impl TryFrom<&Element> for Segment, as far as the model needs it: a
\* segment carries a required direction
SegmentTryFrom(elem) ==
    IF ParsedDirAttribute(elem, "direction").ok
    THEN Ok([direction |-> ParsedDirAttribute(elem, "direction").val])
    ELSE ParsedDirAttribute(elem, "direction")

\* Iterator::collect::<Result<Vec<_>>>: the values when every item is Ok,
\* the first Err in iteration order otherwise
RECURSIVE collect(_)
collect(results) ==
    IF Len(results) = 0 THEN Ok(<<>>)
    ELSE IF ~Head(results).ok THEN Head(results)
    ELSE LET rest == collect(Tail(results))
         IN  IF rest.ok THEN Ok(<<Head(results).val>> \o rest.val) ELSE rest

-----------------------------------------------------------------------------
(* move.rs                                                                 *)

\* struct Move
Move(actions) == [actions |-> actions]

\* Move::new
MoveNew == Move(<<>>)

\* impl From<Action> for Move
MoveFromAction(action) == Move(<<action>>)

\* Move::last
last(self) ==
    IF Len(self.actions) = 0 THEN [some |-> FALSE]
    ELSE [some |-> TRUE, val |-> self.actions[Len(self.actions)]]

\* Move::is_empty
is_empty(self) == Len(self.actions) = 0

\* the unit value returned by the perform implementations of move.rs
Unit == "()"

\* A receiver is a Move (impl Perform<Action> for Move: push the action,
\* return unit) or a generic receiver T, whose perform records the action
\* and returns the Output T chooses (given here as output).
perform_action(self, action, output) ==
    IF "actions" \in DOMAIN self
    THEN [self |-> [self EXCEPT !.actions = Append(@, action)],
          output |-> Unit]
    ELSE [self |-> [self EXCEPT !.log = Append(@, action)],
          output |-> output]

\* impl<T> Perform<Move> for T where T: Perform<Action>: the loop calls
\* self.perform(action) for every action of the move, drops each Output
\* and returns unit
RECURSIVE perform_move(_, _, _)
perform_move(self, actions, outputs) ==
    IF Len(actions) = 0 THEN [self |-> self, output |-> Unit]
    ELSE perform_move(perform_action(self, Head(actions), Head(outputs)).self,
                      Tail(actions), Tail(outputs))

\* try_from that decodes the children of the node itself, not those of its
\* "actions" child
MoveTryFrom_without_wrapper(elem) ==
    LET nodes == childs(elem)
        decoded == collect([i \in 1..Len(nodes) |-> ActionTryFrom(nodes[i])])
    IN  IF decoded.ok THEN Ok(Move(decoded.val)) ELSE decoded

\* try_from that takes a missing "actions" child for an empty move
MoveTryFrom_default_when_missing(elem) ==
    LET actions == child_by_name(elem, "actions")
    IN  IF ~actions.ok THEN Ok(Move(<<>>))
        ELSE LET nodes == childs(actions.val)
                 decoded == collect([i \in 1..Len(nodes) |->
                                        ActionTryFrom(nodes[i])])
             IN  IF decoded.ok THEN Ok(Move(decoded.val)) ELSE decoded

\* impl TryFrom<&Element> for Move
MoveTryFrom(elem) ==
    LET actions == child_by_name(elem, "actions")
    IN  IF ~actions.ok THEN actions
        ELSE LET nodes == childs(actions.val)
                 decoded == collect([i \in 1..Len(nodes) |->
                                        ActionTryFrom(nodes[i])])
             IN  IF decoded.ok THEN Ok(Move(decoded.val)) ELSE decoded

\* the encoding with the actions in reverse order
MoveToElement_reversed(mv) ==
    BuilderBuild(
        BuilderChild(
            BuilderAttribute(ElementNew("data"), "class", "move"),
            BuilderChilds(ElementNew("actions"),
                          [i \in 1..Len(mv.actions) |->
                              ActionToElement(
                                  mv.actions[Len(mv.actions) + 1 - i])])))

\* impl From<Move> for Element
MoveToElement(mv) ==
    BuilderBuild(
        BuilderChild(
            BuilderAttribute(ElementNew("data"), "class", "move"),
            BuilderChilds(ElementNew("actions"),
                          [i \in 1..Len(mv.actions) |->
                              ActionToElement(mv.actions[i])])))

-----------------------------------------------------------------------------
(* board.rs                                                                *)

\* impl TryFrom<&Element> for Board: the segments are decoded first, then
\* the nextDirection attribute is looked up and parsed
BoardTryFrom(elem) ==
    LET nodes == childs_by_name(elem, "segment")
        segments == collect([i \in 1..Len(nodes) |-> SegmentTryFrom(nodes[i])])
        next_direction == ParsedDirAttribute(elem, "nextDirection")
    IN  IF ~segments.ok THEN segments
        ELSE IF ~next_direction.ok THEN next_direction
        ELSE Ok([segments |-> segments.val,
                 next_direction |-> next_direction.val])

-----------------------------------------------------------------------------
(* The inputs of the geometry functions.                                   *)

Coords == (-MaxCoord)..MaxCoord

\* the i32 values next to the ends of the range
EdgeInts == {MinI32, MinI32 + 1, MinI32 + 2, MaxI32 - 2, MaxI32 - 1, MaxI32}

\* scalars of the multiplication and division, turns of the rotation
Ints == ((-MaxInt)..MaxInt) \cup EdgeInts

\* vectors on the hex grid (r + q + s = 0), small ones and ones with
\* components at the ends of the i32 range
ZeroSumVecs ==
    {new(r, q, -r - q) : r \in Coords, q \in Coords}
        \cup {new(MinI32, MaxI32, 1), new(MaxI32, 0, -MaxI32),
              new(1, MaxI32, MinI32)}

\* CubeVec::new takes any three components
Vecs == ZeroSumVecs \cup {new(r, q, s) : r \in -1..1, q \in -1..1, s \in -1..1}

OffsetCoords == ((-MaxCoord)..(MaxCoord + 2)) \cup EdgeInts

Strings ==
    {DirToString(d) : d \in CubeDir}
        \cup {"UP", "DOWN", "", "right", "Right", "RIGHT ", " LEFT",
              "DOWN-RIGHT", "DOWNRIGHT", "UP_RIGHT_", "up_left"}

\* the argument lists of the calls, by signature
DirDirInputs ==
    {[sig |-> "dir_dir", self |-> a, target |-> b] : a \in CubeDir, b \in CubeDir}

DirInputs == {[sig |-> "dir", dir |-> d] : d \in CubeDir}

StrInputs == {[sig |-> "str", s |-> s] : s \in Strings}

VecVecInputs ==
    {[sig |-> "vec_vec", self |-> v, rhs |-> w] : v \in Vecs, w \in Vecs}

VecDirInputs ==
    {[sig |-> "vec_dir", self |-> v, dir |-> d] : v \in Vecs, d \in CubeDir}

VecI32Inputs ==
    {[sig |-> "vec_i32", self |-> v, k |-> k] : v \in Vecs, k \in Ints}

I32VecInputs ==
    {[sig |-> "i32_vec", k |-> k, rhs |-> v] : k \in Ints, v \in Vecs}

VecInputs == {[sig |-> "vec", vec |-> v] : v \in Vecs}

OffsetInputs ==
    {[sig |-> "i32_i32", x |-> x, y |-> y] :
        x \in OffsetCoords, y \in OffsetCoords}

-----------------------------------------------------------------------------
(* The geometry part: the arguments are drawn in the initial state and     *)
(* one action per function applies it to them.                             *)

StartGeo ==
    /\ overflow_checks \in BOOLEAN
    /\ \/ \E a \in DirDirInputs : call = <<"none", a, <<>>>>
       \/ \E a \in DirInputs : call = <<"none", a, <<>>>>
       \/ \E a \in StrInputs : call = <<"none", a, <<>>>>
       \/ \E a \in VecVecInputs : call = <<"none", a, <<>>>>
       \/ \E a \in VecDirInputs : call = <<"none", a, <<>>>>
       \/ \E a \in VecI32Inputs : call = <<"none", a, <<>>>>
       \/ \E a \in I32VecInputs : call = <<"none", a, <<>>>>
       \/ \E a \in VecInputs : call = <<"none", a, <<>>>>
       \/ \E a \in OffsetInputs : call = <<"none", a, <<>>>>
    /\ the_move = MoveNew
    /\ receiver = [log |-> <<>>]

\* the call of the function name on arguments of signature sig
Call(sig, name, r) ==
    /\ op = "none"
    /\ args.sig = sig
    /\ call' = <<name, args, r>>
    /\ UNCHANGED <<overflow_checks, the_move, receiver>>

TurnCountTo ==
    Call("dir_dir", "turn_count_to", turn_count_to(args.self, args.target))

Display == Call("dir", "to_string", DirToString(args.dir))

FromStr == Call("str", "from_str", from_str(args.s))

Add == Call("vec_vec", "add", add(args.self, args.rhs))

AddDir == Call("vec_dir", "add_dir", add_dir(args.self, args.dir))

AddAssign == Call("vec_vec", "add_assign", add(args.self, args.rhs))

AddAssignDir == Call("vec_dir", "add_assign_dir", add_dir(args.self, args.dir))

Sub == Call("vec_vec", "sub", sub(args.self, args.rhs))

SubDir == Call("vec_dir", "sub_dir", sub_dir(args.self, args.dir))

SubAssign == Call("vec_vec", "sub_assign", sub(args.self, args.rhs))

SubAssignDir == Call("vec_dir", "sub_assign_dir", sub_dir(args.self, args.dir))

Mul == Call("vec_i32", "mul", mul(args.self, args.k))

MulLeft == Call("i32_vec", "mul_left", mul_left(args.k, args.rhs))

MulAssign == Call("vec_i32", "mul_assign", mul(args.self, args.k))

Div == Call("vec_i32", "div", div(args.self, args.k))

DivAssign == Call("vec_i32", "div_assign", div(args.self, args.k))

Neg == Call("vec", "neg", neg(args.vec))

RotatedBy == Call("vec_i32", "rotated_by", rotated_by(args.self, args.k))

FromDir == Call("dir", "from_dir", Done(FromCubeDir(args.dir)))

FromOffset == Call("i32_i32", "from_vec2", FromVec2(args.x, args.y))

NextGeo ==
    \/ TurnCountTo
    \/ Display
    \/ FromStr
    \/ Add
    \/ AddDir
    \/ AddAssign
    \/ AddAssignDir
    \/ Sub
    \/ SubDir
    \/ SubAssign
    \/ SubAssignDir
    \/ Mul
    \/ MulLeft
    \/ MulAssign
    \/ Div
    \/ DivAssign
    \/ Neg
    \/ RotatedBy
    \/ FromDir
    \/ FromOffset

SpecGeo == StartGeo /\ [][NextGeo]_vars

-----------------------------------------------------------------------------
(* Properties of the geometry part.                                        *)

\* r + q + s = 0, evaluated without leaving the i32 range
ZeroSum(v) ==
    IF AddOverflows(v.r, v.q)
    THEN v.r > 0 /\ v.s = MinI32 /\ WrapAdd(v.r, v.q) = MinI32
    ELSE v.s # MinI32 /\ v.r + v.q = -v.s

Tokens == {"RIGHT", "DOWN_RIGHT", "DOWN_LEFT", "LEFT", "UP_LEFT", "UP_RIGHT"}

\* C5: a.turn_count_to(b) is the integer k of -3..2 with k congruent to
\* ordinal(b) - ordinal(a) modulo 6: 0 when a = b, and -3 (not 3) when b is
\* three ordinals away from a.
C5_TurnCountCanonical ==
    op = "turn_count_to" =>
        LET d == turns(args.target) - turns(args.self)
        IN  /\ ret \in -3..2
            /\ (ret - d) % 6 = 0
            /\ (args.self = args.target => ret = 0)
            /\ (d \in {-3, 3} => ret = -3)

C5_Witness ==
    /\ op = "turn_count_to"
    /\ args.self = "Right"
    /\ args.target = "Left"
    /\ ret = -3

\* C9: every direction prints as one of the six tokens and parsing that
\* token gives the direction back; every token parses to the direction
\* that prints as it; any other string is rejected with an UnknownVariant
\* error whose message is "Unknown direction " followed by the string as it
\* was given.
C9_DirectionTokens ==
    /\ op = "to_string" =>
          /\ ret \in Tokens
          /\ from_str(ret).ok
          /\ from_str(ret).val = args.dir
    /\ (op = "from_str" /\ args.s \in Tokens) =>
          /\ ret.ok
          /\ DirToString(ret.val) = args.s
    /\ (op = "from_str" /\ args.s \notin Tokens) =>
          /\ ~ret.ok
          /\ ret.kind = "UnknownVariant"
          /\ ret.msg = "Unknown direction " \o args.s

C9_Witness ==
    /\ op = "from_str"
    /\ args.s = "UP"
    /\ ~ret.ok
    /\ ret.msg = "Unknown direction UP"

\* the vectors a call of an arithmetic operation works on
VecOperands ==
    CASE args.sig = "vec_vec" -> {args.self, args.rhs}
      [] args.sig = "vec_dir" -> {args.self}
      [] args.sig = "vec_i32" -> {args.self}
      [] args.sig = "i32_vec" -> {args.rhs}
      [] args.sig = "vec" -> {args.vec}
      [] OTHER -> {}

ArithmeticOps ==
    {"add", "add_dir", "add_assign", "add_assign_dir",
     "sub", "sub_dir", "sub_assign", "sub_assign_dir",
     "mul", "mul_left", "mul_assign", "div", "div_assign",
     "neg", "rotated_by"}

DivisionOps == {"div", "div_assign"}

\* no component computation of the call leaves the i32 range
NoOverflow ==
    LET each(P(_)) == \A i \in 1..3 : P(i)
        self == IF args.sig = "i32_vec" THEN Components(args.rhs)
                ELSE IF args.sig = "vec" THEN Components(args.vec)
                ELSE Components(args.self)
    IN  CASE op \in {"add", "add_assign"} ->
               \A i \in 1..3 : ~AddOverflows(self[i], Components(args.rhs)[i])
          [] op \in {"add_dir", "add_assign_dir"} ->
               \A i \in 1..3 :
                   ~AddOverflows(self[i], Components(FromCubeDir(args.dir))[i])
          [] op \in {"sub", "sub_assign"} ->
               \A i \in 1..3 : ~SubOverflows(self[i], Components(args.rhs)[i])
          [] op \in {"sub_dir", "sub_assign_dir"} ->
               \A i \in 1..3 :
                   ~SubOverflows(self[i], Components(FromCubeDir(args.dir))[i])
          [] op \in {"mul", "mul_assign"} ->
               \A i \in 1..3 : ~MulOverflows(self[i], args.k)
          [] op = "mul_left" ->
               \A i \in 1..3 : ~MulOverflows(args.k, self[i])
          [] op \in DivisionOps ->
               \A i \in 1..3 : ~(self[i] = MinI32 /\ args.k = -1)
          [] op = "neg" ->
               \A i \in 1..3 : self[i] # MinI32
          [] op = "rotated_by" ->
               /\ ~AddOverflows(args.k, 2)
               /\ (args.k % 2 = 1 => \A i \in 1..3 : self[i] # MinI32)

\* k divides c without remainder
Divides(k, c) ==
    IF k = MinI32 THEN c \in {0, MinI32}
    ELSE c % (IF k < 0 THEN -k ELSE k) = 0

\* C7 as stated: every arithmetic operation that returns, division by any
\* nonzero scalar and rotation by any turns included, maps zero-sum
\* operands to a zero-sum result.
C7_EveryOperationPreservesZeroSum ==
    (/\ op \in ArithmeticOps
     /\ \A v \in VecOperands : ZeroSum(v)
     /\ (op \in DivisionOps => args.k # 0)
     /\ ~ret.panic)
        => ZeroSum(ret.val)

\* C7 as amended: an arithmetic operation on zero-sum operands returns a
\* zero-sum result when none of its component computations overflows the
\* i32 range and, for the division, when the scalar is nonzero and divides
\* every component exactly.
C7_ZeroSumPreserved ==
    (/\ op \in ArithmeticOps
     /\ \A v \in VecOperands : ZeroSum(v)
     /\ NoOverflow
     /\ (op \in DivisionOps =>
            /\ args.k # 0
            /\ \A i \in 1..3 : Divides(args.k, Components(args.self)[i]))
     /\ ~ret.panic)
        => ZeroSum(ret.val)

C7_Witness ==
    /\ op = "div"
    /\ args.self = new(2, -2, 0)
    /\ args.k = 2
    /\ ~ret.panic
    /\ ret.val = new(1, -1, 0)

\* C6: for a vector v and turns n whose negations are i32 values,
\* v.rotated_by(n) returns, rotating the result by -n returns v, and
\* v.rotated_by(6) is v.
C6_RotateThereAndBack ==
    (/\ op = "rotated_by"
     /\ args.k # MinI32
     /\ \A i \in 1..3 : Components(args.self)[i] # MinI32)
        => /\ ~ret.panic
           /\ ~rotated_by(ret.val, -args.k).panic
           /\ rotated_by(ret.val, -args.k).val = args.self
           /\ (args.k = 6 => ret.val = args.self)

\* C10: rotating the unit vector of a direction d by n turns, for any i32
\* n, returns (without overflow) the unit vector of the direction with
\* ordinal (ordinal(d) + n) mod 6.
C10_RotationFollowsOrdering ==
    (op = "rotated_by" /\ \E d \in CubeDir : args.self = FromCubeDir(d))
        => LET d == CHOOSE d \in CubeDir : args.self = FromCubeDir(d)
               target == ALL[((turns(d) + (args.k % 6)) % 6) + 1]
           IN  /\ ~ret.panic
               /\ ret.val = FromCubeDir(target)

\* C8: the offset coordinate (x, y) converts to the vector with r = y - 2,
\* q = x - 1 - min(y - 2, 0) and s = -r - q (stated for the coordinates
\* away from the ends of the i32 range).
C8_OffsetToCube ==
    (op = "from_vec2" /\ args.x \notin EdgeInts /\ args.y \notin EdgeInts)
        => LET r == args.y - 2
               q == args.x - 1 - min_i32(r, 0)
           IN  /\ ~ret.panic
               /\ ret.val = new(r, q, -r - q)

-----------------------------------------------------------------------------
(* The Move part: a Move is built, performed and encoded.                  *)

\* the actions of the tests of move.rs
ActionSamples == {accelerate(-1), turn("DownRight"), advance(2)}

\* the sequences over S of length at most n
SeqUpTo(S, n) == UNION {[1..k -> S] : k \in 0..n}

\* the Outputs a generic receiver may return from one perform
Outputs == {"Ok", "Err"}

StartMove ==
    /\ overflow_checks \in BOOLEAN
    /\ call = <<"none", <<>>, <<>>>>
    /\ the_move = MoveNew
    /\ receiver = [log |-> <<>>]

\* Move::new()
New ==
    /\ the_move' = MoveNew
    /\ call' = <<"new", <<>>, MoveNew>>
    /\ UNCHANGED <<overflow_checks, receiver>>

\* Move::from(action)
FromAction ==
    \E action \in ActionSamples :
        /\ the_move' = MoveFromAction(action)
        /\ call' = <<"from_action", action,
                    MoveFromAction(action)>>
        /\ UNCHANGED <<overflow_checks, receiver>>

\* the_move.perform(action): the action is appended
Push ==
    \E action \in ActionSamples :
        /\ Len(the_move.actions) < MaxActions
        /\ the_move' = perform_action(the_move, action, Unit).self
        /\ call' = <<"push", action,
                    perform_action(the_move, action, Unit).output>>
        /\ UNCHANGED <<overflow_checks, receiver>>

\* the_move.perform(other): a Move performs single actions, so it performs
\* moves
PerformOnMove ==
    \E other \in SeqUpTo(ActionSamples, 2) :
        /\ Len(the_move.actions) + Len(other) <= MaxActions
        /\ the_move' = perform_move(the_move, other,
                                    [i \in 1..Len(other) |-> Unit]).self
        /\ call' = <<"perform_on_move", Move(other),
                    perform_move(the_move, other,
                               [i \in 1..Len(other) |-> Unit]).output>>
        /\ UNCHANGED <<overflow_checks, receiver>>

\* t.perform(the_move.clone()) on a generic receiver t with an empty log,
\* whose perform returns outputs[i] for the i-th action it is given
PerformOnReceiver ==
    \E outputs \in [1..Len(the_move.actions) -> Outputs] :
        /\ receiver' = perform_move([log |-> <<>>], the_move.actions,
                                    outputs).self
        /\ call' = <<"perform", [move |-> the_move, outputs |-> outputs],
                    perform_move([log |-> <<>>], the_move.actions,
                               outputs).output>>
        /\ UNCHANGED <<overflow_checks, the_move>>

\* the_move.last()
Last ==
    /\ call' = <<"last", the_move, last(the_move)>>
    /\ UNCHANGED <<overflow_checks, the_move, receiver>>

\* the_move.is_empty()
IsEmpty ==
    /\ call' = <<"is_empty", the_move, is_empty(the_move)>>
    /\ UNCHANGED <<overflow_checks, the_move, receiver>>

\* Element::from(the_move.clone())
IntoElement ==
    /\ call' = <<"into_element", the_move,
                MoveToElement(the_move)>>
    /\ UNCHANGED <<overflow_checks, the_move, receiver>>

\* Move::try_from(&element) on the element that was just encoded
TryFromEncoded ==
    /\ op = "into_element"
    /\ call' = <<"try_from", ret, MoveTryFrom(ret)>>
    /\ UNCHANGED <<overflow_checks, the_move, receiver>>

NextMove ==
    \/ New
    \/ FromAction
    \/ Push
    \/ PerformOnMove
    \/ PerformOnReceiver
    \/ Last
    \/ IsEmpty
    \/ IntoElement
    \/ TryFromEncoded

SpecMove == StartMove /\ [][NextMove]_vars

-----------------------------------------------------------------------------
(* The decoders: the element is drawn in the initial state and one action  *)
(* per decoder applies it.                                                 *)

Node(name, attributes, nodes) ==
    [name |-> name, attributes |-> attributes, childs |-> nodes]

\* children of an "actions" node: encoded actions, and nodes that are no
\* action (unknown name, unknown direction, missing attribute, no number)
ActionNodes ==
    {ActionToElement(a) : a \in ActionSamples}
        \cup {Node("acceleration", {<<"acc", "+1">>}, <<>>),
              Node("wait", {}, <<>>),
              Node("turn", {<<"direction", "UP">>}, <<>>),
              Node("advance", {}, <<>>),
              Node("acceleration", {<<"acc", "x">>}, <<>>)}

\* children of a node that are neither "actions" nor "segment"
OtherNode == Node("comment", {}, <<>>)

MoveNodes ==
    {Node("data", {<<"class", "move">>}, nodes) :
        nodes \in {<<>>, <<OtherNode>>}
            \cup {<<Node("actions", {}, cs)>> :
                     cs \in SeqUpTo(ActionNodes, MaxChilds)}
            \cup {<<OtherNode, Node("actions", {}, cs)>> :
                     cs \in SeqUpTo(ActionNodes, MaxChilds)}
            \cup {<<Node("actions", {}, cs), Node("actions", {}, <<>>)>> :
                     cs \in SeqUpTo(ActionNodes, MaxChilds)}}

BoardChildNodes ==
    {Node("segment", {<<"direction", "RIGHT">>}, <<>>),
     Node("segment", {<<"direction", "DOWN_LEFT">>}, <<>>),
     Node("segment", {<<"direction", "UP">>}, <<>>),
     Node("segment", {}, <<>>),
     OtherNode}

BoardNodes ==
    {Node("board", attributes, nodes) :
        attributes \in {{}, {<<"nextDirection", "RIGHT">>},
                        {<<"nextDirection", "UP_LEFT">>},
                        {<<"nextDirection", "UP">>},
                        {<<"nextDirection", "right">>}},
        nodes \in SeqUpTo(BoardChildNodes, MaxChilds)}

StartDecode ==
    /\ overflow_checks \in BOOLEAN
    /\ \E elem \in MoveNodes \cup BoardNodes : call = <<"none", elem, <<>>>>
    /\ the_move = MoveNew
    /\ receiver = [log |-> <<>>]

\* Move::try_from(&element)
DecodeMove ==
    /\ op = "none"
    /\ call' = <<"move_try_from", args, MoveTryFrom(args)>>
    /\ UNCHANGED <<overflow_checks, the_move, receiver>>

\* Board::try_from(&element)
DecodeBoard ==
    /\ op = "none"
    /\ call' = <<"board_try_from", args, BoardTryFrom(args)>>
    /\ UNCHANGED <<overflow_checks, the_move, receiver>>

NextDecode ==
    \/ DecodeMove
    \/ DecodeBoard

SpecDecode == StartDecode /\ [][NextDecode]_vars

-----------------------------------------------------------------------------
(* Properties of the Move part and of the decoders.                        *)

\* the least element of a non-empty set of integers
Least(S) == CHOOSE i \in S : \A j \in S : i <= j

\* C1: performing a move on a receiver of single actions performs its
\* actions once each and in order; when the receiver's perform fails on an
\* action, the failure is what the caller gets back and no later action of
\* the move is performed.
C1_FailFast ==
    op = "perform" =>
        LET actions == args.move.actions
            failed == {i \in 1..Len(actions) : args.outputs[i] = "Err"}
        IN  IF failed = {}
            THEN /\ receiver.log = actions
                 /\ ret = Unit
            ELSE /\ receiver.log = SubSeq(actions, 1, Least(failed))
                 /\ ret = "Err"

\* C2: the encoding of a move (the empty one included) is a node "data"
\* whose only attribute is class="move" and whose only child is a node
\* "actions"; the children of "actions" are the encodings of the actions of
\* the move, one each, in the order of the move.
C2_EncodedShape ==
    op = "into_element" =>
        /\ ret.name = "data"
        /\ ret.attributes = {<<"class", "move">>}
        /\ Len(ret.childs) = 1
        /\ ret.childs[1].name = "actions"
        /\ Len(ret.childs[1].childs) = Len(args.actions)
        /\ \A i \in 1..Len(args.actions) :
               ret.childs[1].childs[i] = ActionToElement(args.actions[i])

C2_Witness ==
    /\ op = "into_element"
    /\ Len(args.actions) = 3
    /\ args.actions[1] = accelerate(-1)
    /\ args.actions[2] = turn("DownRight")
    /\ args.actions[3] = advance(2)
    /\ ret = Node("data", {<<"class", "move">>},
                  <<Node("actions", {},
                         <<Node("acceleration", {<<"acc", "-1">>}, <<>>),
                           Node("turn", {<<"direction", "DOWN_RIGHT">>}, <<>>),
                           Node("advance", {<<"distance", "2">>}, <<>>)>>)>>)

\* C3: decoding the encoding of a move (the empty one included) succeeds
\* and gives the move back: the same actions in the same order.
C3_RoundTrip ==
    (op = "try_from" /\ args = MoveToElement(the_move))
        => /\ ret.ok
           /\ ret.val = the_move

C3_Witness ==
    /\ op = "try_from"
    /\ Len(the_move.actions) = 3
    /\ the_move.actions[1] = advance(2)
    /\ the_move.actions[2] = turn("DownRight")
    /\ the_move.actions[3] = accelerate(-1)
    /\ ret.ok
    /\ ret.val = the_move

\* the positions of the children of elem that have the given name
Named(elem, name) == {i \in 1..Len(elem.childs) : elem.childs[i].name = name}

\* the i-th smallest element of a set of integers
RECURSIVE Nth(_, _)
Nth(S, i) == IF i = 1 THEN Least(S) ELSE Nth(S \ {Least(S)}, i - 1)

\* C4, for a move: decoding fails when there is no "actions" child and when
\* a child of the (first) "actions" child is no action; when it succeeds the
\* move has one action per child of "actions", each the decoding of that
\* child, in document order; a failure carries no move.
C4_MoveAllOrNothing ==
    op = "move_try_from" =>
        /\ Named(args, "actions") = {} => ~ret.ok
        /\ Named(args, "actions") # {} =>
              LET nodes == args.childs[Least(Named(args, "actions"))].childs
              IN  /\ (\E i \in 1..Len(nodes) : ~ActionTryFrom(nodes[i]).ok)
                         => ~ret.ok
                  /\ ret.ok =>
                         /\ Len(ret.val.actions) = Len(nodes)
                         /\ \A i \in 1..Len(nodes) :
                                /\ ActionTryFrom(nodes[i]).ok
                                /\ ret.val.actions[i]
                                       = ActionTryFrom(nodes[i]).val
        /\ ~ret.ok => "val" \notin DOMAIN ret

\* C4, for a board: decoding fails when a "segment" child is no segment and
\* when the nextDirection attribute is missing or is no direction token;
\* when it succeeds the board has one segment per "segment" child, each the
\* decoding of that child, in document order, and the direction the
\* attribute names; a failure carries no board.
C4_BoardAllOrNothing ==
    op = "board_try_from" =>
        LET at == Named(args, "segment")
            next == {p \in args.attributes : p[1] = "nextDirection"}
        IN  /\ (\E i \in at : ~SegmentTryFrom(args.childs[i]).ok) => ~ret.ok
            /\ next = {} => ~ret.ok
            /\ (\E p \in next : p[2] \notin Tokens) => ~ret.ok
            /\ ret.ok =>
                  /\ Len(ret.val.segments) = Cardinality(at)
                  /\ \A i \in 1..Cardinality(at) :
                         /\ SegmentTryFrom(args.childs[Nth(at, i)]).ok
                         /\ ret.val.segments[i]
                                = SegmentTryFrom(args.childs[Nth(at, i)]).val
                  /\ \E p \in next : p[2] = DirToString(ret.val.next_direction)
            /\ ~ret.ok => "val" \notin DOMAIN ret

\* C4: composite decoding is all or nothing.
C4_AllOrNothing == C4_MoveAllOrNothing /\ C4_BoardAllOrNothing

C4_Witness ==
    /\ op = "move_try_from"
    /\ Named(args, "actions") = {}
    /\ ~ret.ok
    /\ ret.kind = "MissingChild"
    /\ ret.msg = "actions"

====
